---- MODULE Spec2Model ----
(***************************************************************************)
(* A model of radiacode_to_gmap_converter.py: the command line tool that   *)
(* reads a RadiaCode KML/KMZ track, parses each placemark's description,   *)
(* normalizes the dose rate, maps it to a colour and writes a new KML.     *)
(*                                                                         *)
(* Text is modelled as sequences of one-character strings, so that         *)
(* splitting, parsing and formatting are computed and not assumed.         *)
(* Floating point numbers that the claims compare are modelled as exact    *)
(* rationals [n, d] (d > 0): the inputs are short decimals, for which      *)
(* the comparisons with 0 and 1 and int(x * 255) agree with the exact      *)
(* values.                                                                 *)
(***************************************************************************)
EXTENDS Integers, Sequences, FiniteSets, TLC

VARIABLES pc, args, input, handles, tree, df, kml_str, output_file,
          raised, stdout, events, opened_entry, call, ret

vars == <<pc, args, input, handles, tree, df, kml_str, output_file,
          raised, stdout, events, opened_entry, call, ret>>

(***************************************************************************)
(* Bounds of the model.                                                    *)
(***************************************************************************)
\* Most placemarks in a document.
MaxPlacemarks == 2
\* Most entries in a KMZ archive.
MaxEntries == 2
\* Longest coordinate string given to the coordinate transform.
MaxCoordLen == 8
\* Dose rates and range ends are 0..MaxDose (in hundredths of a uSv/h).
MaxDose == 5
\* Channel fractions and alpha are k/ColorDen, k in 0..ColorDen.
ColorDen == 9

\* 255: the scale of a colour byte (line 31).
ByteMax == 255

(***************************************************************************)
(* Python values.                                                          *)
(***************************************************************************)
\* A float (an exact rational), NaN, or None.
Num(n, d) == [t |-> "num", n |-> n, d |-> d]
PyNaN == [t |-> "nan", n |-> 0, d |-> 1]
PyNone == [t |-> "none", n |-> 0, d |-> 1]

\* The outcome of an evaluation: a value, or a raised exception.
Ok(v) == [ok |-> TRUE, val |-> v, type |-> "", msg |-> ""]
Raise(type, msg) == [ok |-> FALSE, val |-> PyNone, type |-> type, msg |-> msg]

NoExc == [type |-> "", msg |-> "", stage |-> ""]
Exc(type, msg, stage) == [type |-> type, msg |-> msg, stage |-> stage]

(***************************************************************************)
(* process_kml, lines 75-78: the normalization lambda                      *)
(*   lambda x: min(max((x - min_val) / (max_val - min_val), 0), 1)         *)
(***************************************************************************)
\* max(q, 0) where q = n/d, d > 0: Python's max returns its first argument
\* unless a later one is greater.
PyMax0(q) == IF 0 > q.n THEN Num(0, 1) ELSE q
\* min(q, 1): the first argument unless a later one is smaller.
PyMin1(q) == IF q.d < q.n THEN Num(1, 1) ELSE q

\* The quotient a / b (b # 0) with a positive denominator.
Quot(a, b) == IF b < 0 THEN Num(-a, -b) ELSE Num(a, b)

\* The lambda without its clamp: the value is extrapolated.
NormalizeValueNoClamp(x, min_val, max_val) ==
  IF x.t = "none"
    THEN Raise("TypeError", "unsupported operand type(s) for -: 'NoneType' and 'float'")
  ELSE IF max_val - min_val = 0
    THEN Raise("ZeroDivisionError", "float division by zero")
  ELSE IF x.t = "nan" THEN Ok(PyNaN)
  ELSE Ok(Quot(x.n - min_val * x.d, (max_val - min_val) * x.d))

\* x - min_val raises on None; the division raises on a zero denominator;
\* NaN passes through max and min (every comparison with NaN is false).
NormalizeValue(x, min_val, max_val) ==
  IF x.t = "none"
    THEN Raise("TypeError", "unsupported operand type(s) for -: 'NoneType' and 'float'")
  ELSE IF max_val - min_val = 0
    THEN Raise("ZeroDivisionError", "float division by zero")
  ELSE IF x.t = "nan" THEN Ok(PyNaN)
  ELSE Ok(PyMin1(PyMax0(Quot(x.n - min_val * x.d, (max_val - min_val) * x.d))))

(***************************************************************************)
(* get_color, lines 27-31.                                                 *)
(***************************************************************************)
HexDigits == <<"0", "1", "2", "3", "4", "5", "6", "7",
               "8", "9", "a", "b", "c", "d", "e", "f">>

\* format(n, "x"): the hexadecimal digits of n >= 0, lower case.
RECURSIVE HexOf(_)
HexOf(n) == IF n < 16 THEN <<HexDigits[n + 1]>>
            ELSE HexOf(n \div 16) \o <<HexDigits[(n % 16) + 1]>>

\* f"{n:02x}": at least two digits, padded with zeros on the left.
Format02x(n) == IF n < 16 THEN <<"0">> \o HexOf(n) ELSE HexOf(n)

\* str.upper() on one character.
UpperChar(c) ==
  CASE c = "a" -> "A" [] c = "b" -> "B" [] c = "c" -> "C"
    [] c = "d" -> "D" [] c = "e" -> "E" [] c = "f" -> "F"
    [] c = "k" -> "K" [] c = "m" -> "M" [] c = "l" -> "L" [] c = "z" -> "Z"
    [] OTHER -> c
Upper(s) == [i \in 1..Len(s) |-> UpperChar(s[i])]

\* round(x * 255) as Python rounds: to the nearest, a half to the even.
ChannelByteRound(x) ==
  LET p == x.n * ByteMax
      q == p \div x.d
      r2 == 2 * (p % x.d)
  IN  IF r2 > x.d \/ (r2 = x.d /\ q % 2 = 1) THEN q + 1 ELSE q

\* int(x * 255): truncation (x >= 0 here, so the floor).
ChannelByte(x) == (x.n * ByteMax) \div x.d

\* Line 31: alpha, blue, green, red, two hex digits each, upper-cased.
FormatABGR(rgb, alpha) ==
  Upper(Format02x(ChannelByte(alpha)) \o Format02x(ChannelByte(rgb[3]))
        \o Format02x(ChannelByte(rgb[2])) \o Format02x(ChannelByte(rgb[1])))

\* plt.get_cmap's registry, reduced to one linear gradient of matplotlib:
\* "cool" is (x, 1 - x, 1).
CmapRegistry == {"cool"}

\* cmap(value): the gradient's colour; NaN gives the "bad" colour (0, 0, 0).
Cmap(cmap_name, value) ==
  IF value.t = "nan" THEN <<Num(0, 1), Num(0, 1), Num(0, 1)>>
  ELSE <<value, Num(value.d - value.n, value.d), Num(1, 1)>>

get_color(value, cmap_name, alpha) ==
  IF cmap_name \notin CmapRegistry
    THEN Raise("ValueError", "is not a valid value for cmap")
  ELSE Ok(FormatABGR(Cmap(cmap_name, value), alpha))

(***************************************************************************)
(* create_kml_from_dataframe, lines 130-141: the coordinate transform      *)
(*   coords = row['coordinates'].split(',')                                *)
(*   longitude, latitude = float(coords[0]), float(coords[1])              *)
(*   f"{longitude},{latitude},0"                                           *)
(***************************************************************************)
\* str.split(','): the fields between the commas; "" gives one empty field.
RECURSIVE SplitComma(_)
SplitComma(s) ==
  IF s = <<>> THEN << <<>> >>
  ELSE LET rest == SplitComma(Tail(s))
       IN  IF Head(s) = "," THEN << <<>> >> \o rest
           ELSE << <<Head(s)>> \o Head(rest) >> \o Tail(rest)

DigitChars == <<"0", "1", "2", "3", "4", "5", "6", "7", "8", "9">>
IsDigit(c) == \E i \in 1..10 : DigitChars[i] = c
DigitVal(c) == (CHOOSE i \in 1..10 : DigitChars[i] = c) - 1

RECURSIVE Pow10(_)
Pow10(k) == IF k = 0 THEN 1 ELSE 10 * Pow10(k - 1)

\* The decimal digits of n >= 0.
RECURSIVE Dec(_)
Dec(n) == IF n < 10 THEN <<DigitChars[n + 1]>>
          ELSE Dec(n \div 10) \o <<DigitChars[(n % 10) + 1]>>

\* The number written by a sequence of digits (0 for none).
RECURSIVE DigitsValue(_)
DigitsValue(ds) ==
  IF ds = <<>> THEN 0
  ELSE 10 * DigitsValue(SubSeq(ds, 1, Len(ds) - 1)) + DigitVal(ds[Len(ds)])

\* m / 10^k with the trailing zeros of the fraction dropped.
RECURSIVE Canon(_, _, _)
Canon(neg, m, k) ==
  IF k > 0 /\ m % 10 = 0 THEN Canon(neg, m \div 10, k - 1)
  ELSE [neg |-> neg, m |-> m, k |-> k]

\* A decimal: an optional sign, then digits with at most one point and at
\* least one digit.
IsDecimal(text) ==
  LET body == IF Len(text) > 0 /\ text[1] = "-" THEN Tail(text) ELSE text
  IN  /\ \A i \in 1..Len(body) : IsDigit(body[i]) \/ body[i] = "."
      /\ Cardinality({i \in 1..Len(body) : body[i] = "."}) <= 1
      /\ \E i \in 1..Len(body) : IsDigit(body[i])

\* The value (-1)^neg * m / 10^k of a decimal.
DecimalValue(text) ==
  LET neg == Len(text) > 0 /\ text[1] = "-"
      body == IF neg THEN Tail(text) ELSE text
      dots == {i \in 1..Len(body) : body[i] = "."}
      dot == IF dots = {} THEN Len(body) + 1 ELSE CHOOSE i \in dots : TRUE
      digits == SubSeq(body, 1, dot - 1) \o SubSeq(body, dot + 1, Len(body))
  IN  Canon(neg, DigitsValue(digits), IF dots = {} THEN 0 ELSE Len(body) - dot)

\* v * 10^x.
Scale(v, x) ==
  IF x <= v.k THEN Canon(v.neg, v.m, v.k - x)
  ELSE Canon(v.neg, v.m * Pow10(x - v.k), 0)

\* float(text) for text over digits, ".", "-" and "e": a decimal, or a
\* decimal, "e" and a signed integer; anything else is a ValueError.
ParseFloat(text) ==
  LET es == {i \in 1..Len(text) : text[i] = "e"}
      p == CHOOSE i \in es : TRUE
      mant == SubSeq(text, 1, p - 1)
      ex == SubSeq(text, p + 1, Len(text))
      exdigits == IF Len(ex) > 0 /\ ex[1] = "-" THEN Tail(ex) ELSE ex
      x == IF Len(ex) > 0 /\ ex[1] = "-" THEN -DigitsValue(exdigits)
           ELSE DigitsValue(exdigits)
  IN  IF es = {}
        THEN IF IsDecimal(text) THEN Ok(DecimalValue(text))
             ELSE Raise("ValueError", "could not convert string to float")
      ELSE IF /\ Cardinality(es) = 1
              /\ IsDecimal(mant)
              /\ Len(exdigits) > 0
              /\ \A i \in 1..Len(exdigits) : IsDigit(exdigits[i])
        THEN Ok(Scale(DecimalValue(mant), x))
      ELSE Raise("ValueError", "could not convert string to float")

\* ds padded with zeros on the left to n characters.
RECURSIVE PadZeros(_, _)
PadZeros(ds, n) == IF Len(ds) >= n THEN ds ELSE PadZeros(<<"0">> \o ds, n)

\* str(x) of a float: the shortest decimal that reads back as x, which for
\* a short decimal is that decimal in canonical form; scientific notation
\* when the decimal exponent is below -4 (values of 1e16 and above do not
\* occur within MaxCoordLen characters).
FloatRepr(v) ==
  LET sign == IF v.neg THEN <<"-">> ELSE <<>>
      ds == Dec(v.m)
      e == Len(ds) - 1 - v.k
  IN  IF v.m # 0 /\ e < -4
        THEN sign \o <<ds[1]>>
             \o (IF Len(ds) > 1 THEN <<".">> \o Tail(ds) ELSE <<>>)
             \o <<"e", "-">> \o PadZeros(Dec(-e), 2)
        ELSE sign \o Dec(v.m \div Pow10(v.k)) \o <<".">>
             \o (IF v.k = 0 THEN <<"0">>
                 ELSE PadZeros(Dec(v.m % Pow10(v.k)), v.k))

\* The transform with the source's third field kept as the altitude.
FormatCoordinatesKeepAltitude(s) ==
  LET coords == SplitComma(s)
      lon == ParseFloat(coords[1])
      lat == ParseFloat(coords[2])
  IN  IF ~lon.ok THEN Raise(lon.type, lon.msg)
      ELSE IF Len(coords) < 2 THEN Raise("IndexError", "list index out of range")
      ELSE IF ~lat.ok THEN Raise(lat.type, lat.msg)
      ELSE Ok(FloatRepr(lon.val) \o <<",">> \o FloatRepr(lat.val) \o <<",">>
              \o (IF Len(coords) > 2 THEN coords[3] ELSE <<"0">>))

\* float(coords[0]) is evaluated before coords[1] is indexed.
FormatCoordinates(s) ==
  LET coords == SplitComma(s)
      lon == ParseFloat(coords[1])
      lat == ParseFloat(coords[2])
  IN  IF ~lon.ok THEN Raise(lon.type, lon.msg)
      ELSE IF Len(coords) < 2 THEN Raise("IndexError", "list index out of range")
      ELSE IF ~lat.ok THEN Raise(lat.type, lat.msg)
      ELSE Ok(FloatRepr(lon.val) \o <<",">> \o FloatRepr(lat.val) \o <<",", "0">>)

(***************************************************************************)
(* The input of a run: the command line and the file it names.             *)
(***************************************************************************)
KmlSuffix == <<".", "k", "m", "l">>
KmzSuffix == <<".", "k", "m", "z">>

\* str.lower() on one character.
LowerChar(c) ==
  CASE c = "K" -> "k" [] c = "M" -> "m" [] c = "L" -> "l" [] c = "Z" -> "z"
    [] OTHER -> c
Lower(s) == [i \in 1..Len(s) |-> LowerChar(s[i])]

\* str.endswith
EndsWith(s, suffix) ==
  /\ Len(s) >= Len(suffix)
  /\ SubSeq(s, Len(s) - Len(suffix) + 1, Len(s)) = suffix

\* A description: matching the pattern of parse_description with a dose rate
\* of 0.15 uSv/h (15 hundredths) and an accuracy of 5 m; not matching it; or
\* matching it with a number float() rejects ([\d.]+ matches "1.2.3").
Descriptions == {"match", "nomatch", "badfloat"}

\* An attribute or a text that may be absent: <<>> or <<value>>.
Ids == {<<>>, <<"p1">>, <<"p2">>}

\* The text of Point/coordinates: absent when the placemark has no such
\* child, "1.5,2,9", or "1.5" (a single field).
CoordText == <<"1", ".", "5", ",", "2", ",", "9">>
Coordinates == {<<>>, <<CoordText>>, << <<"1", ".", "5">> >>}

Placemarks == [id : Ids, coordinates : Coordinates, description : Descriptions]

\* The bytes of a KML document: not well-formed XML, a document without
\* name or description, or a document with its placemarks in order.
NotXml == [wellformed |-> FALSE, meta |-> FALSE, placemarks |-> <<>>]
NoMeta == [wellformed |-> TRUE, meta |-> FALSE, placemarks |-> <<>>]
Documents ==
  {NotXml, NoMeta}
  \cup {[wellformed |-> TRUE, meta |-> TRUE, placemarks |-> ps] :
          ps \in UNION {[1..n -> Placemarks] : n \in 0..MaxPlacemarks}}

EntryNames == { <<"a", ".", "k", "m", "l">>, <<"b", ".", "k", "m", "l">>,
                <<"a", ".", "K", "M", "L">>, <<"i", ".", "p", "n", "g">> }
Archives == UNION {[1..n -> EntryNames] : n \in 0..MaxEntries}

\* A file at the input path: its existence, its extension, whether it is a
\* zip archive and with which entries, and the document it holds (every
\* entry of an archive holds the document).
File(exists, suffix, zip, entries, content) ==
  [exists |-> exists, suffix |-> suffix, zip |-> zip, entries |-> entries,
   content |-> content]

\* The input file: a file that does not exist, a file with another
\* extension, a .kmz file that is no zip archive, a KML file, or a KMZ
\* archive.  Documents of several placemarks come in a .kml file and in
\* an archive of one entry; the other containers hold the smaller ones.
InitInput ==
  \/ input = File(FALSE, KmlSuffix, FALSE, <<>>, NotXml)
  \/ input = File(TRUE, <<".", "t", "x", "t">>, FALSE, <<>>, NotXml)
  \/ input = File(TRUE, KmzSuffix, FALSE, <<>>, NotXml)
  \/ \E d \in Documents : input = File(TRUE, KmlSuffix, FALSE, <<>>, d)
  \/ \E d \in Documents :
       /\ Len(d.placemarks) <= 1
       /\ input = File(TRUE, Upper(KmlSuffix), FALSE, <<>>, d)
  \/ \E d \in Documents :
       input = File(TRUE, KmzSuffix, TRUE, << <<"a", ".", "k", "m", "l">> >>, d)
  \/ \E s \in {KmzSuffix, Upper(KmzSuffix)}, a \in Archives, d \in Documents :
       /\ Len(d.placemarks) <= 1
       /\ input = File(TRUE, s, TRUE, a, d)

\* --min/--max in hundredths: the defaults 0.05 and 0.5, equal ends, and
\* an inverted range; --cmap a registered name or not; --alpha 0.8.
Arguments ==
  [min : {5, 50}, max : {50}, cmap : {"cool", "nosuch"}, alpha : {Num(4, 5)}]
  \cup [min : {50}, max : {5}, cmap : {"cool"}, alpha : {Num(4, 5)}]

NoFile == [state |-> "absent", content |-> <<>>]
NoKml == [built |-> FALSE, placemarks |-> <<>>]
NoTree == [parsed |-> FALSE, meta |-> FALSE, placemarks |-> <<>>]
NoCall == [f |-> "main"]

Init ==
  /\ pc = "start"
  /\ args \in Arguments
  /\ InitInput
  /\ handles = {}
  /\ tree = NoTree
  /\ df = <<>>
  /\ kml_str = NoKml
  /\ output_file = NoFile
  /\ raised = NoExc
  /\ stdout = <<>>
  /\ events = {}
  /\ opened_entry = 0
  /\ call = NoCall
  /\ ret = NoCall

(***************************************************************************)
(* main, lines 163-172: the checks before the try block.                   *)
(***************************************************************************)
CheckExists ==
  /\ pc = "start"
  /\ IF input.exists
       THEN pc' = "check_ext" /\ stdout' = stdout
       ELSE pc' = "done" /\ stdout' = Append(stdout, <<"Error: File does not exist">>)
  /\ UNCHANGED <<args, input, handles, tree, df, kml_str, output_file,
                 raised, events, opened_entry, call, ret>>

CheckExtension ==
  /\ pc = "check_ext"
  /\ IF Lower(input.suffix) \in {KmlSuffix, KmzSuffix}
       THEN pc' = "read" /\ stdout' = stdout
       ELSE /\ pc' = "done"
            /\ stdout' = Append(stdout, <<"Error: File must be .kml or .kmz format">>)
  /\ UNCHANGED <<args, input, handles, tree, df, kml_str, output_file,
                 raised, events, opened_entry, call, ret>>

(***************************************************************************)
(* read_kml_content, lines 33-49.                                          *)
(***************************************************************************)
\* A with statement that releases its handle only when its body ends
\* without an exception.
WithExitOnSuccess(hs, h, exc) == IF exc THEN hs ELSE hs \ {h}

\* Leaving a with statement releases its handle, by return or by exception.
WithExit(hs, h, exc) == hs \ {h}

\* Lines 37-38 and 48: the file is opened, as a zip archive or as it is.
\* ZipFile() closes the file itself when it holds no archive.
OpenInput ==
  /\ pc = "read"
  /\ events' = events \cup {"open_input"}
  /\ IF Lower(input.suffix) = KmzSuffix
       THEN IF input.zip
              THEN /\ handles' = handles \cup {"kmz"}
                   /\ pc' = "find"
                   /\ raised' = raised
              ELSE /\ handles' = handles
                   /\ pc' = "except"
                   /\ raised' = Exc("BadZipFile", "File is not a zip file", "read")
       ELSE /\ handles' = handles \cup {"file"}
            /\ pc' = "parse_file"
            /\ raised' = raised
  /\ UNCHANGED <<args, input, tree, df, kml_str, output_file, stdout,
                 opened_entry, call, ret>>

\* Line 40: the names of the archive that end in ".kml", in archive order.
KmlNames(entries) == {i \in 1..Len(entries) : EndsWith(entries[i], KmlSuffix)}
HasKml(entries) == KmlNames(entries) # {}
KmlFilename(entries) ==
  entries[CHOOSE i \in KmlNames(entries) : \A j \in KmlNames(entries) : i <= j]

\* Line 44: ZipFile.open(name) looks the name up in the archive's table of
\* names, where a later entry of the same name has replaced an earlier one.
EntryByName(entries, name) ==
  CHOOSE i \in 1..Len(entries) :
    /\ entries[i] = name
    /\ \A j \in 1..Len(entries) : entries[j] = name => j <= i

\* Lines 40-42.
FindEntry ==
  /\ pc = "find"
  /\ IF HasKml(input.entries)
       THEN /\ pc' = "open_entry"
            /\ UNCHANGED <<handles, raised>>
       ELSE /\ pc' = "except"
            /\ raised' = Exc("ValueError", "No KML file found in KMZ archive", "read")
            /\ handles' = WithExit(handles, "kmz", TRUE)
  /\ UNCHANGED <<args, input, tree, df, kml_str, output_file, stdout,
                 events, opened_entry, call, ret>>

\* Line 44.
OpenEntry ==
  /\ pc = "open_entry"
  /\ opened_entry' = EntryByName(input.entries, KmlFilename(input.entries))
  /\ handles' = handles \cup {"entry"}
  /\ pc' = "parse_entry"
  /\ UNCHANGED <<args, input, tree, df, kml_str, output_file, raised, stdout,
                 events, call, ret>>

\* parser.parse: the tree of well-formed bytes, or an XMLSyntaxError.
ParseXml(content) ==
  IF content.wellformed
    THEN Ok([parsed |-> TRUE, meta |-> content.meta,
             placemarks |-> content.placemarks])
    ELSE Raise("XMLSyntaxError", "Start tag expected, '<' not found")

\* Lines 45-46, leaving both with statements.
ParseEntry ==
  /\ pc = "parse_entry"
  /\ LET r == ParseXml(input.content)
     IN  /\ handles' = WithExit(WithExit(handles, "entry", ~r.ok), "kmz", ~r.ok)
         /\ IF r.ok
              THEN tree' = r.val /\ pc' = "extract" /\ raised' = raised
              ELSE tree' = tree /\ pc' = "except"
                   /\ raised' = Exc(r.type, r.msg, "read")
  /\ UNCHANGED <<args, input, df, kml_str, output_file, stdout, events,
                 opened_entry, call, ret>>

\* Line 49, leaving the with statement.
ParseFile ==
  /\ pc = "parse_file"
  /\ LET r == ParseXml(input.content)
     IN  /\ handles' = WithExit(handles, "file", ~r.ok)
         /\ IF r.ok
              THEN tree' = r.val /\ pc' = "extract" /\ raised' = raised
              ELSE tree' = tree /\ pc' = "except"
                   /\ raised' = Exc(r.type, r.msg, "read")
  /\ UNCHANGED <<args, input, df, kml_str, output_file, stdout, events,
                 opened_entry, call, ret>>

(***************************************************************************)
(* process_kml, lines 54-83.                                               *)
(***************************************************************************)
\* The index of the first element of a sequence of outcomes that raised.
FirstRaise(rs) ==
  CHOOSE i \in 1..Len(rs) : ~rs[i].ok /\ \A j \in 1..(i - 1) : rs[j].ok
AllOk(rs) == \A i \in 1..Len(rs) : rs[i].ok

Row(p) ==
  [id |-> p.id, coordinates |-> p.coordinates[1], description |-> p.description,
   usvh |-> PyNone, accuracy |-> <<>>, usvh_normalized |-> PyNone,
   color |-> <<>>]

\* An extraction that skips the placemarks without an id attribute.
ExtractPlacemarksWithId(t) ==
  LET ps == SelectSeq(t.placemarks, LAMBDA p : p.id # <<>>)
  IN  [i \in 1..Len(ps) |-> Row(ps[i])]

\* Lines 59-70: one row per Placemark beneath Document, in document order.
ExtractPlacemarks(t) == [i \in 1..Len(t.placemarks) |-> Row(t.placemarks[i])]

\* Lines 54-70.  Document.name, Document.description and each placemark's
\* Point.coordinates are attribute lookups that raise when the child is
\* missing.
Extract ==
  /\ pc = "extract"
  /\ IF ~tree.meta
       THEN /\ pc' = "except" /\ df' = df
            /\ raised' = Exc("AttributeError", "no such child: name", "extract")
     ELSE IF \E i \in 1..Len(tree.placemarks) : tree.placemarks[i].coordinates = <<>>
       THEN /\ pc' = "except" /\ df' = df
            /\ raised' = Exc("AttributeError", "no such child: Point", "extract")
     ELSE /\ pc' = "parse" /\ df' = ExtractPlacemarks(tree) /\ raised' = raised
  /\ UNCHANGED <<args, input, handles, tree, kml_str, output_file, stdout,
                 events, opened_entry, call, ret>>

\* Lines 15-25.
parse_description(desc) ==
  CASE desc = "match" -> Ok([usvh |-> Num(15, 1), accuracy |-> <<"5">>])
    [] desc = "nomatch" -> Ok([usvh |-> PyNone, accuracy |-> <<>>])
    [] OTHER -> Raise("ValueError", "could not convert string to float")

\* Line 73, the column that pandas builds from the parsed values: a column
\* of floats and None is a float column with NaN for None; a column of
\* None alone stays a column of None.
FloatColumn(rows) ==
  IF \E i \in 1..Len(rows) : rows[i].usvh.t = "num"
    THEN [i \in 1..Len(rows) |->
            IF rows[i].usvh.t = "none" THEN [rows[i] EXCEPT !.usvh = PyNaN]
            ELSE rows[i]]
    ELSE rows

\* Line 73.  An empty DataFrame has no 'description' column.
ParseDescriptions ==
  /\ pc = "parse"
  /\ LET rs == [i \in 1..Len(df) |-> parse_description(df[i].description)]
     IN  IF Len(df) = 0
           THEN /\ pc' = "except" /\ df' = df
                /\ raised' = Exc("KeyError", "'description'", "parse")
         ELSE IF ~AllOk(rs)
           THEN /\ pc' = "except" /\ df' = df
                /\ raised' = Exc(rs[FirstRaise(rs)].type, rs[FirstRaise(rs)].msg,
                                 "parse")
         ELSE /\ pc' = "normalize" /\ raised' = raised
              /\ df' = FloatColumn([i \in 1..Len(df) |->
                          [df[i] EXCEPT !.usvh = rs[i].val.usvh,
                                        !.accuracy = rs[i].val.accuracy]])
  /\ UNCHANGED <<args, input, handles, tree, kml_str, output_file, stdout,
                 events, opened_entry, call, ret>>

\* Lines 75-78.
Normalize ==
  /\ pc = "normalize"
  /\ LET rs == [i \in 1..Len(df) |->
                  NormalizeValue(df[i].usvh, args.min, args.max)]
     IN  IF ~AllOk(rs)
           THEN /\ pc' = "except" /\ df' = df
                /\ raised' = Exc(rs[FirstRaise(rs)].type, rs[FirstRaise(rs)].msg,
                                 "normalize")
                /\ events' = IF rs[FirstRaise(rs)].type = "ZeroDivisionError"
                               THEN events \cup {"zero_division"} ELSE events
           ELSE /\ pc' = "colorize" /\ raised' = raised /\ events' = events
                /\ df' = [i \in 1..Len(df) |->
                            [df[i] EXCEPT !.usvh_normalized = rs[i].val]]
  /\ UNCHANGED <<args, input, handles, tree, kml_str, output_file, stdout,
                 opened_entry, call, ret>>

\* Lines 80-81.
Colorize ==
  /\ pc = "colorize"
  /\ LET rs == [i \in 1..Len(df) |->
                  get_color(df[i].usvh_normalized, args.cmap, args.alpha)]
     IN  IF ~AllOk(rs)
           THEN /\ pc' = "except" /\ df' = df /\ events' = events
                /\ raised' = Exc(rs[FirstRaise(rs)].type, rs[FirstRaise(rs)].msg,
                                 "colorize")
           ELSE /\ pc' = "create" /\ raised' = raised
                /\ df' = [i \in 1..Len(df) |-> [df[i] EXCEPT !.color = rs[i].val]]
                /\ events' = IF \E i \in 1..Len(df) : df[i].usvh_normalized.t = "nan"
                               THEN events \cup {"color_of_absent"} ELSE events
  /\ UNCHANGED <<args, input, handles, tree, kml_str, output_file, stdout,
                 opened_entry, call, ret>>

(***************************************************************************)
(* create_kml_from_dataframe, lines 85-149.                                *)
(***************************************************************************)
\* str(row['id']) of an id that may be None.
PyStr(id) == IF id = <<>> THEN "None" ELSE id[1]

\* Lines 99-142 for one row: int(row['accuracy']) raises on None, the
\* coordinate transform on a malformed string; the id attribute is set.
BuildPlacemark(row) ==
  LET c == FormatCoordinates(row.coordinates)
  IN  IF row.accuracy = <<>>
        THEN Raise("TypeError", "int() argument must be a string or a real number, not 'NoneType'")
      ELSE IF ~c.ok THEN Raise(c.type, c.msg)
      ELSE Ok([id |-> <<PyStr(row.id)>>, color |-> row.color,
               coordinates |-> c.val])

\* Line 186 (lines 179-184 choose the output path and change nothing here).
CreateKml ==
  /\ pc = "create"
  /\ LET rs == [i \in 1..Len(df) |-> BuildPlacemark(df[i])]
     IN  IF ~AllOk(rs)
           THEN /\ pc' = "except" /\ kml_str' = kml_str
                /\ raised' = Exc(rs[FirstRaise(rs)].type, rs[FirstRaise(rs)].msg,
                                 "create")
           ELSE /\ pc' = "open_output" /\ raised' = raised
                /\ kml_str' = [built |-> TRUE,
                               placemarks |-> [i \in 1..Len(df) |-> rs[i].val]]
  /\ UNCHANGED <<args, input, handles, tree, df, output_file, stdout,
                 events, opened_entry, call, ret>>

(***************************************************************************)
(* main, lines 187-191.                                                    *)
(***************************************************************************)
\* Line 187: open(output_path, 'wb') creates the file empty, or fails.
OpenOutput ==
  /\ pc = "open_output"
  /\ \/ /\ output_file' = [state |-> "empty", content |-> <<>>]
        /\ handles' = handles \cup {"output"}
        /\ events' = events \cup {"open_output"}
        /\ pc' = "write"
        /\ raised' = raised
     \/ /\ pc' = "except"
        /\ raised' = Exc("OSError", "Permission denied", "write")
        /\ UNCHANGED <<output_file, handles, events>>
  /\ UNCHANGED <<args, input, tree, df, kml_str, stdout, opened_entry, call, ret>>

\* Line 188, leaving the with statement: the bytes are written, or the
\* write fails with none or a part of them in the file.
WriteOutput ==
  /\ pc = "write"
  /\ \/ /\ output_file' = [state |-> "complete", content |-> kml_str.placemarks]
        /\ handles' = WithExit(handles, "output", FALSE)
        /\ pc' = "done"
        /\ raised' = raised
     \/ /\ \E st \in {"empty", "partial"} :
             output_file' = [state |-> st, content |-> <<>>]
        /\ handles' = WithExit(handles, "output", TRUE)
        /\ pc' = "except"
        /\ raised' = Exc("OSError", "No space left on device", "write")
  /\ UNCHANGED <<args, input, tree, df, kml_str, stdout, events, opened_entry,
                 call, ret>>

\* The classes of the exceptions raised above; each derives from Exception.
ExceptionClasses ==
  {"BadZipFile", "ValueError", "XMLSyntaxError", "AttributeError", "KeyError",
   "TypeError", "ZeroDivisionError", "IndexError", "OSError"}

\* A handler for ValueError alone.
CatchesValueError(e) == e.type = "ValueError"

\* Line 190: except Exception.
Catches(e) == e.type \in ExceptionClasses

\* Lines 190-191: the message is printed and main ends; an exception the
\* clause does not catch leaves main.
Except ==
  /\ pc = "except"
  /\ IF Catches(raised)
       THEN /\ stdout' = Append(stdout, <<"Error processing file: ", raised.msg>>)
            /\ pc' = "done"
       ELSE /\ stdout' = stdout
            /\ pc' = "crashed"
  /\ UNCHANGED <<args, input, handles, tree, df, kml_str, output_file,
                 raised, events, opened_entry, call, ret>>

Next ==
  \/ CheckExists
  \/ CheckExtension
  \/ OpenInput
  \/ FindEntry
  \/ OpenEntry
  \/ ParseEntry
  \/ ParseFile
  \/ Extract
  \/ ParseDescriptions
  \/ Normalize
  \/ Colorize
  \/ CreateKml
  \/ OpenOutput
  \/ WriteOutput
  \/ Except

Spec == Init /\ [][Next]_vars

(***************************************************************************)
(* The functions on their own: a call with arguments drawn from bounded    *)
(* sets, and its return.                                                   *)
(***************************************************************************)
Idle ==
  /\ args = [min |-> 5, max |-> 50, cmap |-> "cool", alpha |-> Num(4, 5)]
  /\ input = File(FALSE, KmlSuffix, FALSE, <<>>, NotXml)
  /\ handles = {}
  /\ tree = NoTree
  /\ df = <<>>
  /\ kml_str = NoKml
  /\ output_file = NoFile
  /\ raised = NoExc
  /\ stdout = <<>>
  /\ events = {}
  /\ opened_entry = 0

Return(r) ==
  /\ pc = "call"
  /\ pc' = "return"
  /\ ret' = r
  /\ UNCHANGED <<args, input, handles, tree, df, kml_str, output_file,
                 raised, stdout, events, opened_entry, call>>

\* The normalization lambda on a dose rate x and a range, in hundredths.
InitNorm ==
  /\ Idle
  /\ pc = "call"
  /\ call \in [f : {"normalize"}, x : 0..MaxDose, min_val : 0..MaxDose,
               max_val : 0..MaxDose]
  /\ ret = NoCall

NormalizeCall ==
  /\ call.f = "normalize"
  /\ Return(NormalizeValue(Num(call.x, 1), call.min_val, call.max_val))

SpecNorm == InitNorm /\ [][NormalizeCall]_vars

\* get_color on a gradient colour (r, g, b) and an alpha, each k/ColorDen,
\* and on a value of the registered gradient.
Fractions == {Num(k, ColorDen) : k \in 0..ColorDen}

InitColor ==
  /\ Idle
  /\ pc = "call"
  /\ call \in [f : {"format"}, rgb : Fractions \X Fractions \X Fractions,
               alpha : Fractions]
         \cup [f : {"get_color"}, value : Fractions, cmap : CmapRegistry,
               alpha : Fractions]
  /\ ret = NoCall

FormatCall ==
  /\ call.f = "format"
  /\ Return(Ok(FormatABGR(call.rgb, call.alpha)))

GetColorCall ==
  /\ call.f = "get_color"
  /\ Return(get_color(call.value, call.cmap, call.alpha))

NextColor == FormatCall \/ GetColorCall

SpecColor == InitColor /\ [][NextColor]_vars

\* The coordinate transform on every string of at most MaxCoordLen
\* characters over digits, the point, the sign and the comma.
CoordChars == {"0", "1", ".", "-", ","}

InitCoord ==
  /\ Idle
  /\ pc = "call"
  /\ \E n \in 0..MaxCoordLen : \E text \in [1..n -> CoordChars] :
       call = [f |-> "coordinates", text |-> text]
  /\ ret = NoCall

CoordinatesCall ==
  /\ call.f = "coordinates"
  /\ Return(FormatCoordinates(call.text))

SpecCoord == InitCoord /\ [][CoordinatesCall]_vars

(***************************************************************************)
(* The properties.                                                         *)
(***************************************************************************)
InputPlacemarks == input.content.placemarks

\* C1: a run either never opens the output file or leaves the complete
\* serialized KML of all records in it; the file is opened only after the
\* whole document has been built.  (Stated as the claim states it; a failed
\* write breaks it.)
C1_CompleteOrNoOutput ==
  /\ "open_output" \in events => kml_str.built
  /\ pc = "done" =>
       \/ "open_output" \notin events /\ output_file.state = "absent"
       \/ /\ output_file.state = "complete"
          /\ output_file.content = kml_str.placemarks
          /\ Len(output_file.content) = Len(InputPlacemarks)

\* C2 (as amended): a built document has exactly one placemark per input
\* placemark, in the same order; the i-th has the id of the i-th input
\* placemark when that has one, and the id "None" when it has none.
C2_PlacemarksKept ==
  kml_str.built =>
    /\ Len(kml_str.placemarks) = Len(InputPlacemarks)
    /\ \A i \in 1..Len(InputPlacemarks) :
         /\ InputPlacemarks[i].id # <<>> =>
              kml_str.placemarks[i].id = InputPlacemarks[i].id
         /\ InputPlacemarks[i].id = <<>> =>
              kml_str.placemarks[i].id = <<"None">>

\* C2 witness: a document has been built from a placemark without an id
\* followed by one with an id.
C2_Witness ==
  /\ kml_str.built
  /\ Len(InputPlacemarks) = 2
  /\ InputPlacemarks[1].id = <<>>
  /\ InputPlacemarks[2].id = <<"p1">>

\* C2 as stated: every output placemark has the id of its input placemark,
\* absent ids included.
C2_SameIds ==
  kml_str.built =>
    /\ Len(kml_str.placemarks) = Len(InputPlacemarks)
    /\ \A i \in 1..Len(InputPlacemarks) :
         kml_str.placemarks[i].id = InputPlacemarks[i].id

\* Whether the returned normalized value is the number n/d with the given
\* relation to 0 and 1.
RetIsZero == ret.ok /\ ret.val.t = "num" /\ ret.val.n = 0
RetIsOne == ret.ok /\ ret.val.t = "num" /\ ret.val.n = ret.val.d

\* C3 (as amended): for a range with min # max the normalized value is in
\* [0,1], 0 at min and 1 at max; with min < max it is 0 below min and 1
\* above max; with min > max it is 0 above min and 1 below max.
C3_NormalizedInUnitInterval ==
  (pc = "return" /\ call.f = "normalize" /\ call.min_val # call.max_val) =>
    /\ ret.ok /\ ret.val.t = "num"
    /\ ret.val.d > 0 /\ 0 <= ret.val.n /\ ret.val.n <= ret.val.d
    /\ call.x = call.min_val => RetIsZero
    /\ call.x = call.max_val => RetIsOne
    /\ call.min_val < call.max_val =>
         /\ call.x < call.min_val => RetIsZero
         /\ call.x > call.max_val => RetIsOne
    /\ call.min_val > call.max_val =>
         /\ call.x > call.min_val => RetIsZero
         /\ call.x < call.max_val => RetIsOne

\* C3 witness: a value above the range has been clamped to 1.
C3_Witness ==
  /\ pc = "return" /\ call.f = "normalize"
  /\ call.min_val < call.max_val
  /\ call.x > call.max_val
  /\ RetIsOne

\* C3 as stated: for every range with min # max, 0 for every value below
\* min and 1 for every value above max.
C3_ClampedOutsideRange ==
  (pc = "return" /\ call.f = "normalize" /\ call.min_val # call.max_val) =>
    /\ ret.ok /\ ret.val.t = "num"
    /\ 0 <= ret.val.n /\ ret.val.n <= ret.val.d
    /\ call.x <= call.min_val => RetIsZero
    /\ call.x >= call.max_val => RetIsOne

\* The byte written by two upper-case hexadecimal characters.
UpperHex == <<"0", "1", "2", "3", "4", "5", "6", "7",
              "8", "9", "A", "B", "C", "D", "E", "F">>
IsUpperHex(c) == \E i \in 1..16 : UpperHex[i] = c
HexVal(c) == (CHOOSE i \in 1..16 : UpperHex[i] = c) - 1
ByteAt(s, i) == 16 * HexVal(s[2 * i - 1]) + HexVal(s[2 * i])

\* The channels of the call, in the order alpha, blue, green, red.
CallABGR ==
  LET rgb == IF call.f = "format" THEN call.rgb
             ELSE <<call.value, Num(ColorDen - call.value.n, ColorDen), Num(1, 1)>>
  IN  <<call.alpha, rgb[3], rgb[2], rgb[1]>>

\* The floor of x * 255, and x * 255 rounded to the nearest integer (no
\* x * 255 is a half here when ColorDen is odd).
Floor255(x) == CHOOSE b \in 0..255 : b * x.d <= 255 * x.n /\ 255 * x.n < (b + 1) * x.d
Round255(x) == CHOOSE b \in 0..255 :
                 (2 * b - 1) * x.d <= 2 * 255 * x.n /\ 2 * 255 * x.n < (2 * b + 1) * x.d

\* C4 (as amended): the colour is 8 upper-case hexadecimal characters, the
\* bytes of alpha, blue, green, red in that order, each the channel times
\* 255 truncated to an integer.
C4_ColorIsTruncatedABGR ==
  (pc = "return" /\ call.f \in {"format", "get_color"}) =>
    /\ ret.ok
    /\ Len(ret.val) = 8
    /\ \A i \in 1..8 : IsUpperHex(ret.val[i])
    /\ \A i \in 1..4 : ByteAt(ret.val, i) = Floor255(CallABGR[i])

\* C4 witness: a colour whose channels differ and are no multiples of 1/255.
C4_Witness ==
  /\ pc = "return" /\ call.f = "format"
  /\ call.rgb[1] # call.rgb[2] /\ call.rgb[2] # call.rgb[3]
  /\ call.alpha # call.rgb[3]
  /\ \A i \in 1..3 : (call.rgb[i].n * 255) % call.rgb[i].d # 0

\* C4 as stated: each byte is round(channel * 255).
C4_ColorIsRoundedABGR ==
  (pc = "return" /\ call.f \in {"format", "get_color"}) =>
    /\ ret.ok
    /\ Len(ret.val) = 8
    /\ \A i \in 1..8 : IsUpperHex(ret.val[i])
    /\ \A i \in 1..4 : ByteAt(ret.val, i) = Round255(CallABGR[i])

\* C5: when a description does not match, the run fails at normalization:
\* it never gets past it, computes no colour from the absent dose rate and
\* writes no output.
C5_AbsentDoseFailsAtNormalization ==
  (\E i \in 1..Len(df) : df[i].description = "nomatch") =>
    /\ pc \notin {"colorize", "create", "open_output", "write"}
    /\ raised.stage \notin {"colorize", "create", "write"}
    /\ "color_of_absent" \notin events
    /\ output_file.state = "absent"

\* C6: with --min equal to --max the input file is never opened, the
\* output file is never opened and no division by zero is evaluated.
C6_EqualBoundsRejectedFirst ==
  args.min = args.max =>
    /\ "open_input" \notin events
    /\ "open_output" \notin events
    /\ "zero_division" \notin events

\* C7: for a .kmz input the entry opened is the first entry of the archive
\* whose name ends in .kml; without such an entry the run ends with the
\* reader's error, nothing parsed and no output file.
C7_FirstKmlEntryParsed ==
  (Lower(input.suffix) = KmzSuffix /\ input.zip) =>
    /\ opened_entry # 0 =>
         /\ EndsWith(input.entries[opened_entry], KmlSuffix)
         /\ \A j \in 1..(opened_entry - 1) :
              ~EndsWith(input.entries[j], KmlSuffix)
    /\ (~HasKml(input.entries) /\ pc = "done") =>
         /\ raised.type = "ValueError"
         /\ raised.msg = "No KML file found in KMZ archive"
         /\ tree = NoTree
         /\ output_file.state = "absent"

\* The fields of a coordinate string and of the returned string.
InFields == SplitComma(call.text)
OutFields == SplitComma(ret.val)

\* C8 (as amended): the output coordinates are exactly three terms: the
\* numbers of the source's first two fields, written as Python writes a
\* float, and the literal 0, whatever else the source carried.
C8_CoordinatesZeroAltitude ==
  (pc = "return" /\ call.f = "coordinates" /\ ret.ok) =>
    /\ Len(OutFields) = 3
    /\ OutFields[3] = <<"0">>
    /\ \A i \in 1..2 :
         /\ ParseFloat(OutFields[i]).ok
         /\ ParseFloat(OutFields[i]).val = ParseFloat(InFields[i]).val
         /\ \E j \in 1..Len(OutFields[i]) : OutFields[i][j] \in {".", "e"}

\* C8 witness: a source with an altitude other than 0 has been transformed.
C8_Witness ==
  /\ pc = "return" /\ call.f = "coordinates" /\ ret.ok
  /\ Len(InFields) >= 3
  /\ InFields[3] = <<"1">>

\* C8 as stated: the first two fields of the source string, then 0.
C8_SourceFieldsKept ==
  (pc = "return" /\ call.f = "coordinates" /\ ret.ok) =>
    /\ Len(OutFields) = 3
    /\ OutFields[1] = InFields[1]
    /\ OutFields[2] = InFields[2]
    /\ OutFields[3] = <<"0">>

\* The position of a program point in main's control flow.
Rank(p) ==
  CASE p = "start" -> 0 [] p = "check_ext" -> 1 [] p = "read" -> 2
    [] p = "find" -> 3 [] p = "open_entry" -> 4 [] p = "parse_entry" -> 5
    [] p = "parse_file" -> 5 [] p = "extract" -> 6 [] p = "parse" -> 7
    [] p = "normalize" -> 8 [] p = "colorize" -> 9 [] p = "create" -> 10
    [] p = "open_output" -> 11 [] p = "write" -> 12 [] p = "except" -> 13
    [] OTHER -> 14

\* C9: an exception raised in the try block never leaves main: the handler
\* can run, its step prints the one message "Error processing file:
\* {message}" and reaches main's end; and the run ends, as every step moves
\* forward in main's control flow.
C9_ExceptionsReported ==
  /\ [](pc # "crashed")
  /\ [](pc = "except" => raised # NoExc /\ ENABLED Except)
  /\ [][pc = "except" =>
          /\ pc' = "done"
          /\ stdout' = << <<"Error processing file: ", raised.msg>> >>]_vars
  /\ []((pc = "done" /\ raised # NoExc) =>
          stdout = << <<"Error processing file: ", raised.msg>> >>)
  /\ [][Rank(pc') > Rank(pc)]_vars

\* C9 witness: a run that failed while writing the output has ended.
C9_Witness ==
  /\ pc = "done"
  /\ raised.stage = "write"
  /\ "open_output" \in events

\* C10: when main has left the try block, by its end or by an exception,
\* no handle is open.
C10_HandlesReleased ==
  pc \in {"except", "done", "crashed"} => handles = {}

\* C10 witness: a run has ended with an error raised while the archive
\* and its entry were open.
C10_Witness ==
  /\ pc = "done"
  /\ opened_entry # 0
  /\ raised.type = "XMLSyntaxError"

====
